---- MODULE Spec2Model ----
(***************************************************************************)
(* The ID map wrapper of faiss-rs (src/src/index/id_map.rs): IdMap<I>,     *)
(* its construction from an index, its teardown, into_inner, and the       *)
(* Index operations it forwards to the native mapping structure.           *)
(*                                                                         *)
(* The native engine is reached through handles.  Its objects live in      *)
(* `heap`; the Rust values that hold handles live in `vals`.  `out` is     *)
(* what the last call was given and what it returned.                      *)
(***************************************************************************)
EXTENDS Integers, Sequences, FiniteSets, TLC

\* ------------------------------------------------------------------ bounds

MaxHandles == 4     \* native handles ever allocated in one run
MaxStore   == 2     \* components (floats) an index stores at most
MaxBuf     == 2     \* longest flat buffer handed to an operation
MaxIds     == 2     \* longest slice of labels handed to add_with_ids
MaxK       == 3     \* largest k asked of assign / search

Slots    == {1, 2}            \* places a high-level value can be held in
Threads  == {1, 2}            \* threads that share a wrapper by reference
Handles  == 1..MaxHandles
Coord    == {0, 1}            \* vector components (f32 in the code)
Dims     == {0, 1, 2}         \* dimensionalities an index is built with
Ids      == {5, 7}            \* labels a caller supplies (Idx = i64)
Wild     == {99}              \* what a read past the end of a slice may yield
Metrics  == {0, 1}            \* the engine's metric codes
Variants == {"Flat", "PQ"}    \* neither takes caller labels; "PQ" needs training
Radii    == {1, 2}            \* radii asked of range_search

Buffers(S, n) == UNION {[1..m -> S] : m \in 0..n}

\* ------------------------------------------------------------------- state

VARIABLES
    heap,     \* handle -> the native object behind it
    frees,    \* handle -> how many times the engine destroyed it
    nextH,    \* the next handle the engine gives out
    vals,     \* slot -> the high-level value held there
    out,      \* the last call: its operation, inputs and result
    run       \* thread -> the call it is in the middle of

vars == <<heap, frees, nextH, vals, out, run>>

NoObj == [cls |-> "none"]
NoVal == [kind |-> "none", inner |-> 0, index_inner |-> 0]
Idle  == [pc |-> "idle"]

Min(a, b) == IF a < b THEN a ELSE b

\* ------------------------------------------------------- the native engine
\* The engine is outside the repository.  What follows is its contract as the
\* wrapper relies on it: objects behind handles, a status code per call.

RECURSIVE SumSq(_, _, _)
SumSq(a, b, i) ==
    IF i = 0 THEN 0 ELSE (a[i] - b[i]) * (a[i] - b[i]) + SumSq(a, b, i - 1)

\* Squared Euclidean distance, the L2 metric's "distance".
L2Distance(a, b) == SumSq(a, b, Len(a))

\* The n vectors of dimension dd a flat row-major buffer starts with.
Vectors(x, n, dd) == [i \in 1..n |-> SubSeq(x, (i - 1) * dd + 1, i * dd)]

IndexObj(variant, dd, metric) ==
    [cls |-> "index", variant |-> variant, d |-> dd, metric_type |-> metric,
     is_trained |-> (variant = "Flat"), ntotal |-> 0, xb |-> <<>>]

\* faiss_IndexIDMap_new: a mapping structure around `index`, which it does not
\* own yet; the engine refuses an index that already holds vectors.
faiss_IndexIDMap_new(hp, index) ==
    [rc  |-> IF hp[index].ntotal = 0 THEN 0 ELSE -1,
     obj |-> [cls |-> "idmap", index |-> index, own_fields |-> FALSE,
              id_map |-> <<>>, d |-> hp[index].d,
              metric_type |-> hp[index].metric_type,
              is_trained |-> hp[index].is_trained,
              ntotal |-> hp[index].ntotal]]

faiss_IndexIDMap_set_own_fields(hp, h, own) ==
    [hp EXCEPT ![h].own_fields = own]

faiss_IndexIDMap_id_map(hp, h) == hp[h].id_map

Freed == [cls |-> "freed"]

Bump(fr, h) == [fr EXCEPT ![h] = Min(@ + 1, 2)]

\* faiss_Index_free: destroys the object; a mapping structure that owns its
\* index destroys the index with it.  Nothing of a destroyed object remains.
faiss_Index_free(hp, fr, h) ==
    IF hp[h].cls = "idmap" /\ hp[h].own_fields
    THEN [heap  |-> [hp EXCEPT ![h] = Freed, ![hp[h].index] = Freed],
          frees |-> Bump(Bump(fr, h), hp[h].index)]
    ELSE [heap  |-> [hp EXCEPT ![h] = Freed],
          frees |-> Bump(fr, h)]

faiss_Index_is_trained(hp, h)  == hp[h].is_trained
faiss_Index_ntotal(hp, h)      == hp[h].ntotal
faiss_Index_d(hp, h)           == hp[h].d
faiss_Index_metric_type(hp, h) == hp[h].metric_type

\* faiss_Index_add: sequential labels.  The mapping structure rejects it (it
\* has no label to record); an index that needs training rejects it untrained.
faiss_Index_add(hp, h, n, x) ==
    IF hp[h].cls = "idmap" \/ ~hp[h].is_trained
    THEN [rc |-> -1, heap |-> hp]
    ELSE [rc |-> 0,
          heap |-> [hp EXCEPT ![h].xb = @ \o Vectors(x, n, hp[h].d),
                              ![h].ntotal = @ + n]]

\* The mapping structure records the labels before it adds to its index, and
\* keeps them when the add is refused.
faiss_Index_add_with_ids_labels_first(hp, h, n, x, xids) ==
    IF hp[h].cls = "index"
    THEN [rc |-> -1, heap |-> hp]
    ELSE LET i  == hp[h].index
             h1 == [hp EXCEPT ![h].id_map = @ \o xids]
             r  == faiss_Index_add(h1, i, n, x)
         IN  IF r.rc # 0
             THEN [rc |-> -1, heap |-> h1]
             ELSE [rc |-> 0, heap |-> [r.heap EXCEPT ![h].ntotal = r.heap[i].ntotal]]

\* faiss_Index_add_with_ids: none of the modelled index variants takes caller
\* labels; the mapping structure adds to its index and records the n labels
\* it reads through xids.
faiss_Index_add_with_ids(hp, h, n, x, xids) ==
    IF hp[h].cls = "index"
    THEN [rc |-> -1, heap |-> hp]
    ELSE LET i == hp[h].index
             r == faiss_Index_add(hp, i, n, x)
         IN  IF r.rc # 0
             THEN [rc |-> -1, heap |-> hp]
             ELSE [rc |-> 0,
                   heap |-> [r.heap EXCEPT ![h].id_map = @ \o xids,
                                            ![h].ntotal = r.heap[i].ntotal]]

\* faiss_Index_reset: the stored vectors go; the mapping structure empties its
\* index and its label table.
faiss_Index_reset(hp, h) ==
    IF hp[h].cls = "idmap"
    THEN [rc |-> 0,
          heap |-> [hp EXCEPT ![hp[h].index].xb = <<>>,
                              ![hp[h].index].ntotal = 0,
                              ![h].id_map = <<>>,
                              ![h].ntotal = 0]]
    ELSE [rc |-> 0, heap |-> [hp EXCEPT ![h].xb = <<>>, ![h].ntotal = 0]]

\* Training an index: "Flat" has nothing to learn; "PQ" rejects an empty sample.
IndexTrain(hp, h, n, x) ==
    IF hp[h].variant = "Flat" THEN [rc |-> 0, heap |-> hp]
    ELSE IF n = 0 THEN [rc |-> -1, heap |-> hp]
    ELSE [rc |-> 0, heap |-> [hp EXCEPT ![h].is_trained = TRUE]]

\* Training starts the index over: what it stored is gone.
faiss_Index_train_starts_over(hp, h, n, x) == faiss_Index_reset(hp, h)

\* faiss_Index_train: the mapping structure trains its index and copies the flag.
faiss_Index_train(hp, h, n, x) ==
    IF hp[h].cls = "idmap"
    THEN LET i == hp[h].index
             r == IndexTrain(hp, i, n, x)
         IN  [rc |-> r.rc,
              heap |-> [r.heap EXCEPT ![h].is_trained = r.heap[i].is_trained]]
    ELSE IndexTrain(hp, h, n, x)

\* The distance the engine reports for a slot it found no neighbour for.
HUGE_VALF == 2 ^ 16

\* How many stored vectors come before position p for query q: the nearer
\* ones, and of the equally near ones those stored earlier.
Rank(xb, q, p) ==
    Cardinality({p2 \in 1..Len(xb) :
        \/ L2Distance(q, xb[p2]) < L2Distance(q, xb[p])
        \/ L2Distance(q, xb[p2]) = L2Distance(q, xb[p]) /\ p2 < p})

\* The position of the j-th nearest stored vector, 0 when there are fewer than j.
Nearest(xb, q, j) ==
    IF j <= Len(xb) THEN CHOOSE p \in 1..Len(xb) : Rank(xb, q, p) = j - 1 ELSE 0

\* Search of an index: nq blocks of k slots, nearest first, sequential labels
\* (position - 1), -1 and HUGE_VALF in the slots past the stored vectors.
IndexSearch(hp, h, nq, x, k) ==
    LET o      == hp[h]
        qs     == Vectors(x, nq, o.d)
        q(i)   == qs[((i - 1) \div k) + 1]
        hit(i) == Nearest(o.xb, q(i), ((i - 1) % k) + 1)
    IN  [rc        |-> IF o.is_trained THEN 0 ELSE -1,
         labels    |-> [i \in 1..(nq * k) |-> hit(i) - 1],
         distances |-> [i \in 1..(nq * k) |->
                           IF hit(i) = 0 THEN HUGE_VALF
                           ELSE L2Distance(q(i), o.xb[hit(i)])]]

\* faiss_Index_search: the mapping structure searches its index and replaces
\* every label that is not negative by the label recorded for that position.
faiss_Index_search(hp, h, nq, x, k) ==
    IF hp[h].cls = "idmap"
    THEN LET r == IndexSearch(hp, hp[h].index, nq, x, k)
         IN  [r EXCEPT !.labels =
                 [i \in 1..(nq * k) |->
                     IF r.labels[i] < 0 THEN r.labels[i]
                     ELSE hp[h].id_map[r.labels[i] + 1]]]
    ELSE IndexSearch(hp, h, nq, x, k)

\* faiss_Index_assign: the labels of a search.
faiss_Index_assign(hp, h, nq, x, k) ==
    LET r == faiss_Index_search(hp, h, nq, x, k)
    IN  [rc |-> r.rc, labels |-> r.labels]

\* faiss_RangeSearchResult_new: a result buffer for nq queries, still empty.
faiss_RangeSearchResult_new(nq) ==
    [cls |-> "rsr", nq |-> nq, lims |-> [i \in 1..(nq + 1) |-> 0],
     labels |-> <<>>, distances |-> <<>>]

\* faiss_RangeSearchResult_free: destroys the buffer.
faiss_RangeSearchResult_free(hp, fr, h) ==
    [heap |-> [hp EXCEPT ![h] = Freed], frees |-> Bump(fr, h)]

\* The stored vectors among the first p that lie within the radius of q, in
\* storage order, each with its position and its distance.
RECURSIVE Within(_, _, _, _)
Within(xb, q, radius, p) ==
    IF p = 0 THEN <<>>
    ELSE Within(xb, q, radius, p - 1) \o
         (IF L2Distance(q, xb[p]) < radius
          THEN <<[p |-> p, dis |-> L2Distance(q, xb[p])]>> ELSE <<>>)

\* The hits of the first i queries, one query after the other.
RECURSIVE QueryHits(_, _, _, _)
QueryHits(xb, qs, radius, i) ==
    IF i = 0 THEN <<>>
    ELSE QueryHits(xb, qs, radius, i - 1) \o Within(xb, qs[i], radius, Len(xb))

\* Range search of an index into the buffer p_res: lims[i]..lims[i + 1] bound
\* the hits of query i, labels are sequential (position - 1).
IndexRangeSearch(hp, h, nq, x, radius, p_res) ==
    LET o    == hp[h]
        qs   == Vectors(x, nq, o.d)
        hits == QueryHits(o.xb, qs, radius, nq)
    IN  IF ~o.is_trained THEN [rc |-> -1, heap |-> hp]
        ELSE [rc |-> 0,
              heap |-> [hp EXCEPT ![p_res] =
                 [cls |-> "rsr", nq |-> nq,
                  lims |-> [i \in 1..(nq + 1) |->
                               Len(QueryHits(o.xb, qs, radius, i - 1))],
                  labels |-> [j \in 1..Len(hits) |-> hits[j].p - 1],
                  distances |-> [j \in 1..Len(hits) |-> hits[j].dis]]]]

\* faiss_Index_range_search: the mapping structure searches its index and
\* replaces every label by the label recorded for that position.
faiss_Index_range_search(hp, h, nq, x, radius, p_res) ==
    IF hp[h].cls = "idmap"
    THEN LET r == IndexRangeSearch(hp, hp[h].index, nq, x, radius, p_res)
         IN  IF r.rc # 0 THEN r
             ELSE [r EXCEPT !.heap[p_res].labels =
                     [j \in 1..Len(r.heap[p_res].labels) |->
                         hp[h].id_map[r.heap[p_res].labels[j] + 1]]]
    ELSE IndexRangeSearch(hp, h, nq, x, radius, p_res)

\* ------------------------------------------------------ high-level values

\* MetricType::from_code: 0 is the inner product, 1 is L2, nothing else is known.
MetricType_from_code(c) ==
    CASE c = 0 -> "InnerProduct"
      [] c = 1 -> "L2"
      [] OTHER -> "None"

IndexVal(h)      == [kind |-> "index", inner |-> h, index_inner |-> 0]
IdMapVal(h, hi)  == [kind |-> "idmap", inner |-> h, index_inner |-> hi]

\* NativeIndex::inner_ptr of a wrapper hands out the inner index's handle.
inner_ptr_of_inner_index(self) ==
    IF self.kind = "idmap" THEN self.index_inner ELSE self.inner

\* NativeIndex::inner_ptr
inner_ptr(self) == self.inner

\* IdMap::index_inner_ptr
index_inner_ptr(self) == self.index_inner

\* FromInnerPtr::from_inner_ptr: a managed index around a handle.
from_inner_ptr(h) == IndexVal(h)

\* Drop of a standalone index: it releases its handle.
drop_index(hp, fr, self) == faiss_Index_free(hp, fr, inner_ptr(self))

\* impl Drop for IdMap: releases the outer handle only.
drop(hp, fr, self) == faiss_Index_free(hp, fr, self.inner)

\* mem::forget: the value goes away and its destructor does not run.
mem_forget(hp, fr, self) == [heap |-> hp, frees |-> fr]

\* The accessors of impl Index for IdMap (and of a standalone index).
is_trained(self)  == faiss_Index_is_trained(heap, inner_ptr(self))
ntotal(self)      == faiss_Index_ntotal(heap, inner_ptr(self))
d(self)           == faiss_Index_d(heap, inner_ptr(self))
metric_type(self) == MetricType_from_code(faiss_Index_metric_type(heap, inner_ptr(self)))

\* IdMap::id_map: the slice the engine reports.
id_map(self) == faiss_IndexIDMap_id_map(heap, self.inner)

\* What a caller can observe of an index through the four accessors.
View(self) ==
    [d |-> d(self), ntotal |-> ntotal(self), is_trained |-> is_trained(self),
     metric_type |-> metric_type(self)]

\* No result of an earlier call is held (nor has the process been killed).
Quiet == out.op = "none"

\* No thread is in the middle of a call through a shared reference.
Unshared == \A t \in Threads : run[t] = Idle

\* A call can be made on slot s, which holds a value of this kind.  A call is
\* made once the result of the call before it has been let go; a call that
\* takes the value or borrows it mutably needs it unshared.
Holds(s, kind) == Quiet /\ Unshared /\ vals[s].kind = kind

\* index_factory / FlatIndex::new: a fresh, empty standalone index.
index_factory(s, dd, metric, variant) ==
    /\ Holds(s, "none")
    /\ nextH <= MaxHandles
    /\ heap' = [heap EXCEPT ![nextH] = IndexObj(variant, dd, metric)]
    /\ nextH' = nextH + 1
    /\ vals' = [vals EXCEPT ![s] = IndexVal(nextH)]
    /\ out' = [op |-> "index_factory", slot |-> s, status |-> "ok"]
    /\ UNCHANGED <<frees, run>>

\* IdMap::new forgets to hand the index over to the mapping structure.
new_leaves_index_unowned == FALSE

\* IdMap::into_inner forgets to take the index back from the mapping structure.
into_inner_keeps_index_owned == TRUE

\* The flag IdMap::new passes to set_own_fields, and the one into_inner passes.
new_own_fields        == TRUE
into_inner_own_fields == FALSE

\* IdMap::new has forgotten `index` before the engine refused it.
new_on_error_forgets(hp, fr, index) == mem_forget(hp, fr, index)

\* IdMap::new returns early through faiss_try!: `index`, which it took by
\* value, is dropped on the way out.
new_on_error(hp, fr, index) == drop_index(hp, fr, index)

\* IdMap::new(index)
new(s) ==
    LET index       == vals[s]
        index_inner == inner_ptr(index)
        r           == faiss_IndexIDMap_new(heap, index_inner)
        inner       == nextH
        hp1         == [heap EXCEPT ![inner] = r.obj]
        hp2         == faiss_IndexIDMap_set_own_fields(hp1, inner, new_own_fields)
    IN  /\ Holds(s, "index")
        /\ nextH <= MaxHandles
        /\ IF r.rc # 0
           THEN \* faiss_try! returns the error; `index` is dropped on the way out
                /\ heap' = new_on_error(heap, frees, index).heap
                /\ frees' = new_on_error(heap, frees, index).frees
                /\ vals' = [vals EXCEPT ![s] = NoVal]
                /\ out' = [op |-> "new", slot |-> s, status |-> "err",
                           arg |-> View(index)]
                /\ UNCHANGED <<nextH, run>>
           ELSE /\ heap' = mem_forget(hp2, frees, index).heap
                /\ frees' = mem_forget(hp2, frees, index).frees
                /\ nextH' = nextH + 1
                /\ vals' = [vals EXCEPT ![s] = IdMapVal(inner, index_inner)]
                /\ out' = [op |-> "new", slot |-> s, status |-> "ok",
                           arg |-> View(index)]
                /\ UNCHANGED run

\* IdMap::new, statement by statement.  `index` has been moved into the call
\* and lives there until it is dropped or forgotten.

\* let index_inner = index.inner_ptr(); faiss_try!(faiss_IndexIDMap_new(..))
new_create(t, s) ==
    LET index       == vals[s]
        index_inner == inner_ptr(index)
        r           == faiss_IndexIDMap_new(heap, index_inner)
    IN  /\ Holds(s, "index")
        /\ nextH <= MaxHandles
        /\ vals' = [vals EXCEPT ![s] = NoVal]
        /\ IF r.rc # 0
           THEN /\ heap' = new_on_error(heap, frees, index).heap
                /\ frees' = new_on_error(heap, frees, index).frees
                /\ out' = [op |-> "new", slot |-> s, status |-> "err",
                           arg |-> View(index)]
                /\ UNCHANGED <<nextH, run>>
           ELSE /\ heap' = [heap EXCEPT ![nextH] = r.obj]
                /\ nextH' = nextH + 1
                /\ run' = [run EXCEPT ![t] =
                      [pc |-> "created", op |-> "new", slot |-> s, index |-> index,
                       index_inner |-> index_inner, inner_ptr |-> nextH,
                       arg |-> View(index)]]
                /\ UNCHANGED <<frees, out>>

\* faiss_IndexIDMap_set_own_fields(inner_ptr, 1)
new_set_own(t) ==
    LET c == run[t]
    IN  /\ c.pc = "created"
        /\ heap' = faiss_IndexIDMap_set_own_fields(heap, c.inner_ptr, new_own_fields)
        /\ run' = [run EXCEPT ![t].pc = "owned"]
        /\ UNCHANGED <<frees, nextH, vals, out>>

\* mem::forget(index); Ok(IdMap { inner: inner_ptr, index_inner, .. })
new_forget(t) ==
    LET c == run[t]
    IN  /\ c.pc = "owned"
        /\ heap' = mem_forget(heap, frees, c.index).heap
        /\ frees' = mem_forget(heap, frees, c.index).frees
        /\ vals' = [vals EXCEPT ![c.slot] = IdMapVal(c.inner_ptr, c.index_inner)]
        /\ out' = [op |-> "new", slot |-> c.slot, status |-> "ok", arg |-> c.arg]
        /\ run' = [run EXCEPT ![t] = Idle]
        /\ UNCHANGED nextH

\* IdMap::into_inner builds the index it returns from the outer handle.
into_inner_returns_outer(self) == from_inner_ptr(self.inner)

\* The index IdMap::into_inner returns: I::from_inner_ptr(self.index_inner).
into_inner_returns(self) == from_inner_ptr(self.index_inner)

\* IdMap::into_inner(self); `self` is dropped when the method returns.
into_inner(s) ==
    LET self == vals[s]
        hp1  == faiss_IndexIDMap_set_own_fields(heap, self.inner, into_inner_own_fields)
        ret  == into_inner_returns(self)
    IN  /\ Holds(s, "idmap")
        /\ heap' = drop(hp1, frees, self).heap
        /\ frees' = drop(hp1, frees, self).frees
        /\ vals' = [vals EXCEPT ![s] = ret]
        /\ out' = [op |-> "into_inner", slot |-> s, status |-> "ok",
                   after |-> out.op]
        /\ UNCHANGED <<nextH, run>>

\* A wrapper goes out of scope.
drop_IdMap(s) ==
    /\ Holds(s, "idmap")
    /\ heap' = drop(heap, frees, vals[s]).heap
    /\ frees' = drop(heap, frees, vals[s]).frees
    /\ vals' = [vals EXCEPT ![s] = NoVal]
    /\ out' = [op |-> "drop", slot |-> s, status |-> "ok"]
    /\ UNCHANGED <<nextH, run>>

\* A standalone index goes out of scope.
drop_Index(s) ==
    /\ Holds(s, "index")
    /\ heap' = drop_index(heap, frees, vals[s]).heap
    /\ frees' = drop_index(heap, frees, vals[s]).frees
    /\ vals' = [vals EXCEPT ![s] = NoVal]
    /\ out' = [op |-> "drop", slot |-> s, status |-> "ok"]
    /\ UNCHANGED <<nextH, run>>

\* ------------------------------------------- impl Index for IdMap (and I)

\* x.len() / self.d() as usize; the division panics when d is 0.
rows(self, x) == Len(x) \div d(self)

\* vec![0; len]
zeros(len) == [i \in 1..len |-> 0]

\* The engine's output never reaches the buffer the caller gets back.
Unfilled(buf, written) == buf

\* A buffer after the engine wrote `written` through its pointer.
Filled(buf, written) ==
    [i \in 1..Len(buf) |-> IF i <= Len(written) THEN written[i] ELSE buf[i]]

\* What the engine reads through a pointer to xids when it reads n labels:
\* the slice, and past its end whatever lies there.
ReadIds(xids, n) ==
    {SubSeq(xids, 1, Min(n, Len(xids))) \o w :
        w \in [1..(IF n > Len(xids) THEN n - Len(xids) ELSE 0) -> Wild]}

\* The record of a call: its operation, its inputs, how it ended.
Call(s, name, args, status) ==
    [op |-> name, slot |-> s, status |-> status] @@ args

\* The call panicked before it reached the engine: nothing else changes.
Panicked(s, name, args) ==
    /\ out' = Call(s, name, args, "panic")
    /\ UNCHANGED <<heap, frees, nextH, vals, run>>

\* The call went to the engine and came back with the engine's status
\* (faiss_try! turns a non-zero status into Err).
Returned(s, name, args, r) ==
    /\ heap' = r.heap
    /\ out' = Call(s, name, args, IF r.rc = 0 THEN "ok" ELSE "err")
    /\ UNCHANGED <<frees, nextH, vals, run>>

\* Index::add on a standalone index.
Index_add(s, x) ==
    LET self == vals[s]
        n    == rows(self, x)
        args == [x |-> x]
    IN  /\ Holds(s, "index")
        /\ IF d(self) = 0 THEN Panicked(s, "add", args)
           ELSE /\ (ntotal(self) + n) * d(self) <= MaxStore
                /\ Returned(s, "add", args,
                            faiss_Index_add(heap, inner_ptr(self), n, x))

\* Index::add_with_ids on a standalone index: the engine refuses.
Index_add_with_ids(s, x, xids) ==
    LET self == vals[s]
        n    == rows(self, x)
        args == [x |-> x, xids |-> xids]
    IN  /\ Holds(s, "index")
        /\ IF d(self) = 0 THEN Panicked(s, "add_with_ids", args)
           ELSE Returned(s, "add_with_ids", args,
                         faiss_Index_add_with_ids(heap, inner_ptr(self), n, x, xids))

\* IdMap::add
add(s, x) ==
    LET self == vals[s]
        n    == rows(self, x)
        args == [x |-> x]
    IN  /\ Holds(s, "idmap")
        /\ IF d(self) = 0 THEN Panicked(s, "add", args)
           ELSE /\ (ntotal(self) + n) * d(self) <= MaxStore
                /\ Returned(s, "add", args,
                            faiss_Index_add(heap, inner_ptr(self), n, x))

\* IdMap::add_with_ids.  The engine reads n labels through xids.as_ptr(); when
\* the slice is shorter the read runs past its end, which yields whatever lies
\* there or ends the process.
add_with_ids(s, x, xids) ==
    LET self == vals[s]
        n    == rows(self, x)
        args == [x |-> x, xids |-> xids]
    IN  /\ Holds(s, "idmap")
        /\ IF d(self) = 0 THEN Panicked(s, "add_with_ids", args)
           ELSE /\ (ntotal(self) + n) * d(self) <= MaxStore
                /\ \E read \in ReadIds(xids, n), killed \in BOOLEAN :
                      LET r == faiss_Index_add_with_ids(heap, inner_ptr(self), n, x, read)
                      IN  IF killed
                          THEN /\ r.rc = 0
                               /\ n > Len(xids)
                               /\ out' = Call(s, "add_with_ids", args, "crash")
                               /\ UNCHANGED <<heap, frees, nextH, vals, run>>
                          ELSE Returned(s, "add_with_ids", args, r)

\* IdMap::train
train(s, x) ==
    LET self == vals[s]
        n    == rows(self, x)
        args == [x |-> x]
    IN  /\ Holds(s, "idmap")
        /\ IF d(self) = 0 THEN Panicked(s, "train", args)
           ELSE Returned(s, "train", args,
                         faiss_Index_train(heap, inner_ptr(self), n, x))

\* The reset goes to the wrapped index, past the mapping structure.
reset_handle_of_index(self) == index_inner_ptr(self)

\* The handle IdMap::reset passes to the engine.
reset_handle(self) == inner_ptr(self)

\* IdMap::reset.  The record keeps how many vectors the wrapper held.
reset(s) ==
    LET self == vals[s]
        args == [held |-> ntotal(self)]
    IN  /\ Holds(s, "idmap")
        /\ Returned(s, "reset", args, faiss_Index_reset(heap, reset_handle(self)))

\* The buffers are allocated for one query only.
result_len_of_one_query(k, nq) == k

\* k * nq, the length of the buffers assign and search hand to the engine.
result_len(k, nq) == k * nq

\* What IdMap::assign returns for a wrapper of dimension d > 0.
assign_result(self, query, k) ==
    LET nq         == rows(self, query)
        out_labels == zeros(result_len(k, nq))
        r          == faiss_Index_assign(heap, inner_ptr(self), nq, query, k)
    IN  IF r.rc # 0 THEN [status |-> "err"]
        ELSE [status |-> "ok", labels |-> Filled(out_labels, r.labels)]

\* The search goes to the wrapped index, past the mapping structure.
search_handle_of_index(self) == index_inner_ptr(self)

\* The handle IdMap::search passes to the engine.
search_handle(self) == inner_ptr(self)

\* What IdMap::search returns for a wrapper of dimension d > 0.
search_result(self, query, k) ==
    LET nq        == rows(self, query)
        distances == zeros(result_len(k, nq))
        labels    == zeros(result_len(k, nq))
        r         == faiss_Index_search(heap, search_handle(self), nq, query, k)
    IN  IF r.rc # 0 THEN [status |-> "err"]
        ELSE [status    |-> "ok",
              distances |-> Filled(distances, r.distances),
              labels    |-> Filled(labels, r.labels)]

\* IdMap::assign
assign(s, query, k) ==
    LET self == vals[s]
        args == [query |-> query, k |-> k]
    IN  /\ Holds(s, "idmap")
        /\ IF d(self) = 0 THEN Panicked(s, "assign", args)
           ELSE /\ out' = [op |-> "assign", slot |-> s] @@ args
                              @@ assign_result(self, query, k)
                /\ UNCHANGED <<heap, frees, nextH, vals, run>>

\* IdMap::search
search(s, query, k) ==
    LET self == vals[s]
        args == [query |-> query, k |-> k]
    IN  /\ Holds(s, "idmap")
        /\ IF d(self) = 0 THEN Panicked(s, "search", args)
           ELSE /\ out' = [op |-> "search", slot |-> s] @@ args
                              @@ search_result(self, query, k)
                /\ UNCHANGED <<heap, frees, nextH, vals, run>>

\* Drop of a RangeSearchResult: it releases its buffer.
drop_RangeSearchResult(hp, fr, res) == faiss_RangeSearchResult_free(hp, fr, res.inner)

\* IdMap::range_search.  The buffer is allocated first; the result value that
\* would release it is only built when the engine's search succeeds.
range_search(s, query, radius) ==
    LET self  == vals[s]
        args  == [query |-> query, radius |-> radius]
        nq    == rows(self, query)
        p_res == nextH
        hp1   == [heap EXCEPT ![p_res] = faiss_RangeSearchResult_new(nq)]
        r     == faiss_Index_range_search(hp1, inner_ptr(self), nq, query, radius, p_res)
    IN  /\ Holds(s, "idmap")
        /\ IF d(self) = 0 THEN Panicked(s, "range_search", args)
           ELSE /\ nextH <= MaxHandles
                /\ heap' = r.heap
                /\ nextH' = nextH + 1
                /\ out' = IF r.rc # 0
                          THEN Call(s, "range_search", args, "err")
                          ELSE Call(s, "range_search", args, "ok") @@ [inner |-> p_res]
                /\ UNCHANGED <<frees, vals, run>>

\* ------------------------------------------------ the accessors, as calls

\* An accessor returned `value`; nothing else happened.  An accessor is one
\* read of the engine; it is called here while no thread is inside a call.
Got(s, name, value) ==
    /\ Holds(s, "idmap")
    /\ out' = [op |-> name, slot |-> s, status |-> "ok", value |-> value]
    /\ UNCHANGED <<frees, nextH, vals, run>>

read_is_trained(s) == Got(s, "is_trained", is_trained(vals[s])) /\ UNCHANGED heap
read_ntotal(s)     == Got(s, "ntotal", ntotal(vals[s])) /\ UNCHANGED heap
read_d(s)          == Got(s, "d", d(vals[s])) /\ UNCHANGED heap
read_id_map(s)     == Got(s, "id_map", id_map(vals[s])) /\ UNCHANGED heap

\* IdMap::metric_type: the unwrap panics on a code MetricType does not know.
read_metric_type(s) ==
    /\ Holds(s, "idmap")
    /\ IF metric_type(vals[s]) = "None"
       THEN Panicked(s, "metric_type", <<>>)
       ELSE Got(s, "metric_type", metric_type(vals[s])) /\ UNCHANGED heap

\* IdMap::index_inner_ptr tells the mapping structure to let go of its index.
index_inner_ptr_disowns(hp, self) ==
    faiss_IndexIDMap_set_own_fields(hp, self.inner, FALSE)

\* What IdMap::index_inner_ptr does to the engine: it reads a field of self.
index_inner_ptr_leaves(hp, self) == hp

read_index_inner_ptr(s) ==
    /\ Got(s, "index_inner_ptr", index_inner_ptr(vals[s]))
    /\ heap' = index_inner_ptr_leaves(heap, vals[s])

\* ---------------------------------------- impl ConcurrentIndex for IdMap
\* The calls take &self, so several threads can be inside them at once.  The
\* engine's search of a mapping structure is two reads: its index searches
\* the stored vectors, then the labels are looked up in the label table.

\* The calls go to the wrapped index, past the mapping structure.
shared_handle_of_index(self) == self.index_inner

\* The handle the ConcurrentIndex methods pass to the engine: self.inner.
shared_handle(self) == self.inner

\* A thread's call has ended with `status` and the fields of `result`.
Done(c, status, result) ==
    [pc |-> "done", status |-> status] @@ result @@
    [f \in (DOMAIN c) \ {"nq", "distances", "labels", "found", "p_res"} |-> c[f]]

\* A thread starts a call on the wrapper in slot s.
Enter(t, s) ==
    /\ Quiet
    /\ run[t] = Idle
    /\ vals[s].kind = "idmap"

\* ConcurrentIndex::assign up to the engine call.
Concurrent_assign(t, s, query, k) ==
    LET self == vals[s]
        c    == [op |-> "assign", slot |-> s, query |-> query, k |-> k]
    IN  /\ Enter(t, s)
        /\ run' = [run EXCEPT ![t] =
              IF d(self) = 0 THEN Done(c, "panic", <<>>)
              ELSE [pc |-> "call", nq |-> rows(self, query),
                    labels |-> zeros(result_len(k, rows(self, query)))] @@ c]
        /\ UNCHANGED <<heap, frees, nextH, vals, out>>

\* ConcurrentIndex::search up to the engine call.
Concurrent_search(t, s, query, k) ==
    LET self == vals[s]
        c    == [op |-> "search", slot |-> s, query |-> query, k |-> k]
    IN  /\ Enter(t, s)
        /\ run' = [run EXCEPT ![t] =
              IF d(self) = 0 THEN Done(c, "panic", <<>>)
              ELSE [pc |-> "call", nq |-> rows(self, query),
                    distances |-> zeros(result_len(k, rows(self, query))),
                    labels |-> zeros(result_len(k, rows(self, query)))] @@ c]
        /\ UNCHANGED <<heap, frees, nextH, vals, out>>

\* The engine, called by assign or search: the index searches its vectors.
Concurrent_call(t) ==
    LET c == run[t]
        h == shared_handle(vals[c.slot])
        i == IF heap[h].cls = "idmap" THEN heap[h].index ELSE h
        r == IndexSearch(heap, i, c.nq, c.query, c.k)
    IN  /\ c.pc = "call"
        /\ run' = [run EXCEPT ![t] =
              IF r.rc # 0 THEN Done(c, "err", <<>>)
              ELSE [pc |-> IF heap[h].cls = "idmap" THEN "translate" ELSE "return",
                    found |-> [labels |-> r.labels, distances |-> r.distances]] @@ c]
        /\ UNCHANGED <<heap, frees, nextH, vals, out>>

\* The engine, still in the call: the mapping structure looks the labels up.
Concurrent_translate(t) ==
    LET c == run[t]
        h == shared_handle(vals[c.slot])
    IN  /\ c.pc = "translate"
        /\ run' = [run EXCEPT ![t] =
              [pc |-> "return",
               found |-> [c.found EXCEPT !.labels =
                  [j \in 1..Len(c.found.labels) |->
                      IF c.found.labels[j] < 0 THEN c.found.labels[j]
                      ELSE heap[h].id_map[c.found.labels[j] + 1]]]] @@ c]
        /\ UNCHANGED <<heap, frees, nextH, vals, out>>

\* The engine has returned 0: assign and search wrap their buffers up.
Concurrent_finish(t) ==
    LET c == run[t]
    IN  /\ c.pc = "return"
        /\ run' = [run EXCEPT ![t] =
              IF c.op = "assign"
              THEN Done(c, "ok", [labels |-> Filled(c.labels, c.found.labels)])
              ELSE Done(c, "ok", [labels    |-> Filled(c.labels, c.found.labels),
                                  distances |-> Filled(c.distances, c.found.distances)])]
        /\ UNCHANGED <<heap, frees, nextH, vals, out>>

\* ConcurrentIndex::range_search up to the engine's search: the buffer exists.
Concurrent_range_search(t, s, query, radius) ==
    LET self == vals[s]
        c    == [op |-> "range_search", slot |-> s, query |-> query, radius |-> radius]
    IN  /\ Enter(t, s)
        /\ IF d(self) = 0
           THEN /\ run' = [run EXCEPT ![t] = Done(c, "panic", <<>>)]
                /\ UNCHANGED <<heap, frees, nextH, vals, out>>
           ELSE /\ nextH <= MaxHandles
                /\ heap' = [heap EXCEPT ![nextH] =
                               faiss_RangeSearchResult_new(rows(self, query))]
                /\ nextH' = nextH + 1
                /\ run' = [run EXCEPT ![t] =
                      [pc |-> "range_call", nq |-> rows(self, query),
                       p_res |-> nextH] @@ c]
                /\ UNCHANGED <<frees, vals, out>>

\* The engine's range search, and the result value built when it returns 0.
Concurrent_range_call(t) ==
    LET c == run[t]
        r == faiss_Index_range_search(heap, shared_handle(vals[c.slot]),
                                      c.nq, c.query, c.radius, c.p_res)
    IN  /\ c.pc = "range_call"
        /\ heap' = r.heap
        /\ run' = [run EXCEPT ![t] =
              IF r.rc # 0 THEN Done(c, "err", <<>>)
              ELSE Done(c, "ok", [inner |-> c.p_res])]
        /\ UNCHANGED <<frees, nextH, vals, out>>

\* The thread lets go of what its call returned; a RangeSearchResult releases
\* its buffer.
Concurrent_return(t) ==
    LET c == run[t]
        r == IF c.op = "range_search" /\ c.status = "ok"
             THEN drop_RangeSearchResult(heap, frees, c)
             ELSE [heap |-> heap, frees |-> frees]
    IN  /\ c.pc = "done"
        /\ c.status # "panic"
        /\ heap' = r.heap
        /\ frees' = r.frees
        /\ run' = [run EXCEPT ![t] = Idle]
        /\ UNCHANGED <<nextH, vals, out>>

\* ---------------------------------------------------------- specifications

Init ==
    /\ heap = [h \in Handles |-> NoObj]
    /\ frees = [h \in Handles |-> 0]
    /\ nextH = 1
    /\ vals = [s \in Slots |-> NoVal]
    /\ out = [op |-> "none", slot |-> 0, status |-> "ok"]
    /\ run = [t \in Threads |-> Idle]

L2 == 1

\* The caller lets go of the result of the last call; a RangeSearchResult
\* releases its buffer.
drop_result ==
    LET r == IF out.op = "range_search" /\ out.status = "ok"
             THEN drop_RangeSearchResult(heap, frees, out)
             ELSE [heap |-> heap, frees |-> frees]
    IN  /\ out.op # "none"
        /\ out.status # "crash"
        /\ heap' = r.heap
        /\ frees' = r.frees
        /\ out' = [op |-> "none", slot |-> 0, status |-> "ok"]
        /\ UNCHANGED <<nextH, vals, run>>

\* What is built: every dimensionality of a flat index, and a trainable one.
Built == (Dims \X {"Flat"}) \cup {<<1, "PQ">>}

\* One index, built as the source's test and example build it (L2), wrapped,
\* filled, searched, unwrapped and dropped.
Next ==
    \/ \E b \in Built : index_factory(1, b[1], L2, b[2])
    \/ new(1)
    \/ into_inner(1)
    \/ drop_IdMap(1)
    \/ drop_Index(1)
    \/ \E x \in Buffers(Coord, MaxBuf) : Index_add(1, x)
    \/ \E x \in Buffers(Coord, MaxBuf), xids \in Buffers(Ids, MaxIds) :
           Index_add_with_ids(1, x, xids)
    \/ \E x \in Buffers(Coord, MaxBuf) : add(1, x)
    \/ \E x \in Buffers(Coord, MaxBuf), xids \in Buffers(Ids, MaxIds) :
           add_with_ids(1, x, xids)
    \/ \E x \in Buffers(Coord, MaxBuf) : train(1, x)
    \/ reset(1)
    \/ \E q \in Buffers(Coord, MaxBuf), k \in 1..MaxK : assign(1, q, k)
    \/ \E q \in Buffers(Coord, MaxBuf), k \in 1..MaxK : search(1, q, k)
    \/ \E q \in Buffers(Coord, MaxBuf), radius \in Radii : range_search(1, q, radius)
    \/ drop_result

Spec == Init /\ [][Next]_vars

\* Two values side by side, of either metric, wrapped, unwrapped and dropped
\* in every order; each is given at most one vector.
One == {<<1>>}

NextOwn ==
    \/ \E s \in Slots, m \in Metrics, v \in Variants : index_factory(s, 1, m, v)
    \/ \E s \in Slots : new(s)
    \/ \E s \in Slots : into_inner(s)
    \/ \E s \in Slots : drop_IdMap(s)
    \/ \E s \in Slots : drop_Index(s)
    \/ \E s \in Slots, x \in One : Index_add(s, x)
    \/ \E s \in Slots, x \in One, xids \in {<<5>>} : add_with_ids(s, x, xids)
    \/ \E s \in Slots, x \in One : train(s, x)
    \/ \E s \in Slots : reset(s)
    \/ drop_result

SpecOwn == Init /\ [][NextOwn]_vars

\* Two values built, filled, wrapped statement by statement, unwrapped and
\* dropped; an index that already holds a vector is refused by the engine.
NextNew ==
    \/ \E s \in Slots, v \in Variants : index_factory(s, 1, L2, v)
    \/ \E s \in Slots, x \in One : Index_add(s, x)
    \/ \E s \in Slots : new_create(1, s)
    \/ new_set_own(1)
    \/ new_forget(1)
    \/ \E s \in Slots, x \in One, xids \in {<<5>>} : add_with_ids(s, x, xids)
    \/ \E s \in Slots : into_inner(s)
    \/ \E s \in Slots : drop_IdMap(s)
    \/ \E s \in Slots : drop_Index(s)
    \/ drop_result

SpecNew == Init /\ [][NextNew]_vars

\* One trained or trainable index of dimension 1 behind a wrapper that two
\* threads query through &self while its owner reads and, between their
\* calls, fills it.
SharedQueries == {<<0>>, <<1, 0>>}
SharedAdds    == {<<(<<0>>), (<<5>>)>>, <<(<<1>>), (<<7>>)>>}

NextShared ==
    \/ \E v \in Variants : index_factory(1, 1, L2, v)
    \/ new(1)
    \/ \E a \in SharedAdds : add_with_ids(1, a[1], a[2])
    \/ \E x \in One : train(1, x)
    \/ read_is_trained(1)
    \/ read_ntotal(1)
    \/ read_d(1)
    \/ read_metric_type(1)
    \/ read_id_map(1)
    \/ read_index_inner_ptr(1)
    \/ \E q \in SharedQueries : assign(1, q, 2)
    \/ \E q \in SharedQueries : search(1, q, 2)
    \/ \E q \in SharedQueries : range_search(1, q, 2)
    \/ \E t \in Threads, q \in SharedQueries : Concurrent_assign(t, 1, q, 2)
    \/ \E t \in Threads, q \in SharedQueries : Concurrent_search(t, 1, q, 2)
    \/ \E t \in Threads, q \in SharedQueries : Concurrent_range_search(t, 1, q, 2)
    \/ \E t \in Threads : Concurrent_call(t)
    \/ \E t \in Threads : Concurrent_translate(t)
    \/ \E t \in Threads : Concurrent_finish(t)
    \/ \E t \in Threads : Concurrent_range_call(t)
    \/ \E t \in Threads : Concurrent_return(t)
    \/ drop_result

SpecShared == Init /\ [][NextShared]_vars

\* ------------------------------------------------------------------ claims

Allocated(h) == h < nextH

\* The handles a high-level value reaches through its fields.
Uses(v) ==
    CASE v.kind = "index" -> {v.inner}
      [] v.kind = "idmap" -> {v.inner, v.index_inner}
      [] OTHER            -> {}

\* C1: every native handle, inner or outer, is released exactly once: never
\* twice, never while a live value still reaches it, and it is released as
\* soon as no live value reaches it (so none is left when all values are gone).
C1_ReleasedExactlyOnce ==
    \A h \in Handles :
        Allocated(h) =>
            /\ frees[h] <= 1
            /\ (frees[h] = 0) <=> (\E s \in Slots : h \in Uses(vals[s]))

\* C1 witness: an unwrap has released the outer handle and left the inner one
\* to the returned index, while the other slot's handles are already released.
C1_Witness ==
    /\ out.op = "into_inner"
    /\ vals[out.slot].kind = "index"
    /\ frees[vals[out.slot].inner] = 0
    /\ \E h \in Handles : heap[h] = Freed /\ frees[h] = 1
    /\ \E s \in Slots : vals[s].kind = "none" /\ nextH > MaxHandles

\* The values whose teardown would release handle h: a standalone index
\* releases its handle, a wrapper releases its outer handle, and with it the
\* index the mapping structure owns.
Owners(h) ==
    {s \in Slots :
        \/ vals[s].kind = "index" /\ vals[s].inner = h
        \/ vals[s].kind = "idmap" /\ vals[s].inner = h
        \/ /\ vals[s].kind = "idmap"
           /\ heap[vals[s].inner].cls = "idmap"
           /\ heap[vals[s].inner].index = h
           /\ heap[vals[s].inner].own_fields}

\* C2: between operations every live native handle has exactly one owning
\* high-level value; after new it is the wrapper, after into_inner the index.
C2_SingleOwner ==
    \A h \in Handles :
        (Allocated(h) /\ heap[h] # Freed) => Cardinality(Owners(h)) = 1

\* C2 witness: a wrapper owns an index through its mapping structure while the
\* other slot holds an index that came back out of a wrapper.
C2_Witness ==
    /\ out.op = "into_inner"
    /\ \E s \in Slots :
          /\ vals[s].kind = "idmap"
          /\ heap[vals[s].inner].own_fields
          /\ Owners(vals[s].index_inner) = {s}
    /\ Owners(vals[out.slot].inner) = {out.slot}

\* What the accessors report for the value in slot s, if its handle is alive.
Observed(s) ==
    IF vals[s].kind # "none" /\ heap[vals[s].inner].cls \in {"index", "idmap"}
    THEN View(vals[s])
    ELSE [dangling |-> TRUE]

\* C5: a successful new leaves d, ntotal, is_trained and metric_type as they
\* were, and so does into_inner; hence new followed by into_inner with no
\* mutation in between gives back an index with the four it had.
C5_RoundTrip ==
    [][\A s \in Slots :
          (/\ out'.slot = s
           /\ out'.status = "ok"
           /\ out'.op \in {"new", "into_inner"})
          => Observed(s)' = Observed(s)]_vars

\* C5 witness: an index that is trained, non-empty and of the inner-product
\* metric has come back out of a wrapper.
C5_Witness ==
    /\ out.op = "into_inner"
    /\ vals[out.slot].kind = "index"
    /\ Observed(out.slot) =
          [d |-> 1, ntotal |-> 1, is_trained |-> TRUE, metric_type |-> "InnerProduct"]
    /\ heap[vals[out.slot].inner].variant = "PQ"

\* The wrapper a call record is about, its stored vectors and its query blocks.
Self       == vals[out.slot]
OnWrapper  == out.slot \in Slots /\ vals[out.slot].kind = "idmap"
Stored     == heap[heap[Self.inner].index].xb
Query(b)   == SubSeq(out.query, (b - 1) * d(Self) + 1, b * d(Self))
Slot(b, j) == (b - 1) * out.k + j
Range(f)   == {f[i] : i \in DOMAIN f}

\* C3 as claimed, taken on calls with d >= 1 and a label for every vector:
\* on a standalone index add_with_ids fails and leaves ntotal alone, on the
\* wrapper the same call succeeds and ntotal grows by len(vectors) / d.
C3_AsClaimed ==
    [][\A s \in Slots :
          (/\ out'.op = "add_with_ids"
           /\ out'.slot = s
           /\ d(vals[s]) >= 1
           /\ Len(out'.xids) >= Len(out'.x) \div d(vals[s]))
          => IF vals[s].kind = "index"
             THEN out'.status = "err" /\ ntotal(vals[s])' = ntotal(vals[s])
             ELSE /\ out'.status = "ok"
                  /\ ntotal(vals[s])' = ntotal(vals[s]) + Len(out'.x) \div d(vals[s])]_vars

\* C3 as amended: with d >= 1 and a label for every vector, add_with_ids on a
\* standalone index fails and leaves ntotal alone; on a wrapper whose index is
\* trained it succeeds and ntotal grows by len(vectors) / d.
C3_Amended ==
    [][\A s \in Slots :
          (/\ out'.op = "add_with_ids"
           /\ out'.slot = s
           /\ d(vals[s]) >= 1
           /\ Len(out'.xids) >= Len(out'.x) \div d(vals[s]))
          => IF vals[s].kind = "index"
             THEN out'.status = "err" /\ ntotal(vals[s])' = ntotal(vals[s])
             ELSE is_trained(vals[s]) =>
                  /\ out'.status = "ok"
                  /\ ntotal(vals[s])' = ntotal(vals[s]) + Len(out'.x) \div d(vals[s])]_vars

\* C3 witness: the wrapper took two vectors with two labels.
C3_Witness ==
    /\ out.op = "add_with_ids"
    /\ out.status = "ok"
    /\ OnWrapper
    /\ Len(out.x) = 2 /\ Len(out.xids) = 2
    /\ ntotal(Self) = 2

\* C4 as claimed: a successful add_with_ids on a wrapper appends the labels it
\* was passed to id_map(), a successful reset empties it, and its length is
\* ntotal().
C4_AsClaimed ==
    [][\A s \in Slots :
          (out'.slot = s /\ out'.status = "ok" /\ vals[s].kind = "idmap")
          => /\ out'.op = "add_with_ids" => id_map(vals[s])' = id_map(vals[s]) \o out'.xids
             /\ out'.op = "reset" => id_map(vals[s])' = <<>>
             /\ out'.op \in {"add_with_ids", "reset"}
                   => Len(id_map(vals[s])') = ntotal(vals[s])']_vars

\* C9 as claimed: add_with_ids on a wrapper with a number of labels other than
\* len(vectors) / d returns an error and changes nothing in the engine.
C9_AsClaimed ==
    [][\A s \in Slots :
          (/\ out'.op = "add_with_ids"
           /\ out'.slot = s
           /\ vals[s].kind = "idmap"
           /\ d(vals[s]) >= 1
           /\ Len(out'.xids) # Len(out'.x) \div d(vals[s]))
          => out'.status = "err" /\ heap' = heap]_vars

\* The flat buffer of a call record.
Buffer == IF out.op \in {"assign", "search"} THEN out.query ELSE out.x

\* C10 as claimed: train, add, add_with_ids, assign and search on a wrapper
\* return an error for a buffer whose length is no multiple of d.
C10_AsClaimed ==
    (/\ out.op \in {"train", "add", "add_with_ids", "assign", "search"}
     /\ OnWrapper
     /\ d(Self) >= 1
     /\ Len(Buffer) % d(Self) # 0)
    => out.status = "err"

\* The ways to pick m stored positions out of nt, each at most once.
Picks(m, nt) ==
    {f \in [1..m -> 1..nt] : \A i, j \in 1..m : f[i] = f[j] => i = j}

\* C6: a successful search on a wrapper reports, in every query's block, the
\* nearest stored vectors under the labels recorded for them, nearest first,
\* with distances that never decrease along the block.
C6_NearestFirst ==
    (out.op = "search" /\ out.status = "ok" /\ OnWrapper) =>
        LET nt == ntotal(Self)
            m  == Min(out.k, nt)
        IN  \A b \in 1..rows(Self, out.query) :
              /\ \A j \in 1..(out.k - 1) :
                    out.distances[Slot(b, j)] <= out.distances[Slot(b, j + 1)]
              /\ \E f \in Picks(m, nt) :
                    /\ \A j \in 1..m :
                          /\ out.labels[Slot(b, j)] = id_map(Self)[f[j]]
                          /\ out.distances[Slot(b, j)]
                                = L2Distance(Query(b), Stored[f[j]])
                    /\ \A p \in (1..nt) \ Range(f) : \A j \in 1..m :
                          out.distances[Slot(b, j)] <= L2Distance(Query(b), Stored[p])

\* C6 witness: the vector stored second, under label 7, is the nearer one and
\* is reported first.
C6_Witness ==
    /\ out.op = "search" /\ out.status = "ok" /\ OnWrapper
    /\ id_map(Self) = <<5, 7>>
    /\ out.k = 2
    /\ Len(out.labels) = 2
    /\ out.labels[1] = 7 /\ out.labels[2] = 5
    /\ out.distances[1] < out.distances[2]

\* C7: a successful assign or search of nq queries returns k * nq labels (and
\* distances), and the block of query i is what the search of query i alone
\* returns.
C7_BlocksPerQuery ==
    (out.op \in {"assign", "search"} /\ out.status = "ok" /\ OnWrapper) =>
        LET nq == rows(Self, out.query)
        IN  /\ Len(out.labels) = out.k * nq
            /\ out.op = "search" => Len(out.distances) = out.k * nq
            /\ \A b \in 1..nq :
                  LET alone == search_result(Self, Query(b), out.k)
                  IN  /\ alone.status = "ok"
                      /\ \A j \in 1..out.k :
                            /\ out.labels[Slot(b, j)] = alone.labels[j]
                            /\ out.op = "search" =>
                                  out.distances[Slot(b, j)] = alone.distances[j]

\* C7 witness: two queries in one search, answered differently.
C7_Witness ==
    /\ out.op = "search" /\ out.status = "ok" /\ OnWrapper
    /\ rows(Self, out.query) = 2
    /\ out.k = 1
    /\ Len(out.labels) = 2
    /\ out.labels[1] # out.labels[2]
    /\ out.labels[1] >= 0 /\ out.labels[2] >= 0

\* The labels of a result are those recorded for the nearest stored vectors in
\* the first ntotal slots of each block and -1 in the slots after them.
Padded ==
    \A b \in 1..rows(Self, out.query) : \A j \in 1..out.k :
        IF j <= ntotal(Self)
        THEN out.labels[Slot(b, j)] \in Range(id_map(Self))
        ELSE out.labels[Slot(b, j)] = -1

\* C8 as claimed, taken on wrappers with d >= 1: assign and search with k
\* above ntotal do not fail, and pad every block with -1.
C8_AsClaimed ==
    (/\ out.op \in {"assign", "search"}
     /\ OnWrapper
     /\ d(Self) >= 1
     /\ out.k > ntotal(Self))
    => out.status = "ok" /\ Len(out.labels) = out.k * rows(Self, out.query) /\ Padded

\* C8 as amended: on a wrapper with d >= 1 whose index is trained, assign and
\* search with k above ntotal succeed, return k labels per query, and fill the
\* slots past the stored vectors of every block with -1.
C8_Amended ==
    (/\ out.op \in {"assign", "search"}
     /\ OnWrapper
     /\ d(Self) >= 1
     /\ is_trained(Self)
     /\ out.k > ntotal(Self))
    => out.status = "ok" /\ Len(out.labels) = out.k * rows(Self, out.query) /\ Padded

\* C8 witness: three results asked of a wrapper holding one vector.
C8_Witness ==
    /\ out.op = "search" /\ out.status = "ok" /\ OnWrapper
    /\ ntotal(Self) = 1
    /\ out.k = 3
    /\ Len(out.labels) = 3
    /\ out.labels[1] = 7 /\ out.labels[2] = -1 /\ out.labels[3] = -1

\* Everything a caller can observe of the wrapper in slot s.
Visible(s) == [view |-> View(vals[s]), id_map |-> id_map(vals[s])]

\* C11: when train, add, add_with_ids or reset on a wrapper returns an error,
\* ntotal, is_trained, d, metric_type and id_map are what they were before.
C11_ErrorLeavesState ==
    [][\A s \in Slots :
          (/\ out'.slot = s
           /\ out'.status = "err"
           /\ out'.op \in {"train", "add", "add_with_ids", "reset"}
           /\ vals[s].kind = "idmap")
          => Visible(s)' = Visible(s)]_vars

\* C11 witness: an add of one vector was refused on a wrapper that holds a
\* labelled vector.
C11_Witness ==
    /\ out.op = "add" /\ out.status = "err" /\ OnWrapper
    /\ Len(out.x) = 1
    /\ ntotal(Self) = 1
    /\ id_map(Self) = <<7>>

\* C12: a successful reset of a wrapper leaves ntotal() = 0 and id_map() empty
\* and is_trained(), d() and metric_type() as they were; an add_with_ids that
\* succeeds on the emptied wrapper leaves a label table of exactly the labels
\* of that call.
C12_ResetClears ==
    [][\A s \in Slots :
          (out'.slot = s /\ out'.status = "ok" /\ vals[s].kind = "idmap") =>
             /\ out'.op = "reset" =>
                   /\ ntotal(vals[s])' = 0
                   /\ id_map(vals[s])' = <<>>
                   /\ is_trained(vals[s])' = is_trained(vals[s])
                   /\ d(vals[s])' = d(vals[s])
                   /\ metric_type(vals[s])' = metric_type(vals[s])
             /\ (out'.op = "add_with_ids" /\ ntotal(vals[s]) = 0 /\ id_map(vals[s]) = <<>>) =>
                   LET n == Len(out'.x) \div d(vals[s])
                   IN  /\ Len(id_map(vals[s])') = n
                       /\ ntotal(vals[s])' = n
                       /\ \A i \in 1..Min(n, Len(out'.xids)) :
                             id_map(vals[s])'[i] = out'.xids[i]]_vars

\* C12 witness: a trained wrapper that held two vectors has been reset.
C12_Witness ==
    /\ out.op = "reset" /\ out.status = "ok" /\ OnWrapper
    /\ out.held = 2
    /\ ntotal(Self) = 0
    /\ id_map(Self) = <<>>
    /\ is_trained(Self)
    /\ heap[Self.index_inner].variant = "PQ"

\* Slot s holds a value.
Live(s) == vals[s].kind # "none"

\* C13: along the life of an index, wrapper or not, d never changes, and ntotal
\* changes only by growing by len(vectors) / d on a successful add or
\* add_with_ids, or by becoming zero on a successful reset.
C13_DimFixedCountMoves ==
    [][\A s \in Slots :
          (Live(s) /\ Live(s)') =>
             /\ d(vals[s])' = d(vals[s])
             /\ \/ ntotal(vals[s])' = ntotal(vals[s])
                \/ /\ out'.slot = s /\ out'.status = "ok"
                   /\ out'.op \in {"add", "add_with_ids"}
                   /\ ntotal(vals[s])' = ntotal(vals[s]) + Len(out'.x) \div d(vals[s])
                \/ /\ out'.slot = s /\ out'.status = "ok"
                   /\ out'.op = "reset"
                   /\ ntotal(vals[s])' = 0]_vars

\* C13 witness: a wrapper that holds one vector has been trained with two, and
\* still holds one.
C13_Witness ==
    /\ out.op = "train" /\ out.status = "ok" /\ OnWrapper
    /\ Len(out.x) = 2
    /\ d(Self) = 1
    /\ ntotal(Self) = 1
    /\ Len(id_map(Self)) = 1

\* What the call a thread is in would return if it were made alone, through
\* the exclusive facet, on the index as it is now.
Sequential(c) ==
    IF c.op = "assign" THEN assign_result(vals[c.slot], c.query, c.k)
    ELSE search_result(vals[c.slot], c.query, c.k)

\* The call of thread t has returned what the sequential call returns.
AsSequential(t) ==
    LET c == run[t]
        q == Sequential(c)
    IN  /\ c.status = q.status
        /\ c.status = "ok" => \A f \in (DOMAIN q) \ {"status"} : c[f] = q[f]

\* The indexes and mapping structures of the engine, without the buffers.
IndexState ==
    [h \in Handles |-> IF heap[h].cls \in {"index", "idmap"} THEN heap[h] ELSE NoObj]

\* C14: assign and search calls made by two threads through &self, in every
\* interleaving of their steps, each return what the sequential call with the
\* same query returns on the same index, and no step of theirs changes it.
\* (A call that has returned is always followed by a step, the thread letting
\* go of the result, so every returned call is looked at.)
C14_SharedSearchIsSequential ==
    [][/\ \A t \in Threads :
             (run[t].pc = "done" /\ run[t].op \in {"assign", "search"}
                 /\ run[t].status # "panic")
             => AsSequential(t)
       /\ run' # run => IndexState' = IndexState]_vars

\* C14 witness: one thread's search has returned both queries' labels while
\* the other thread's assign is still inside the engine.
C14_Witness ==
    /\ run[1].pc = "done" /\ run[1].op = "search" /\ run[1].status = "ok"
    /\ run[1].labels = <<7, 5, 5, 7>>
    /\ run[2].pc = "translate" /\ run[2].op = "assign"

\* Who will release the range-search buffer h: the RangeSearchResult the last
\* call returned, a call that is still running with it, or the result a
\* thread's call returned.
BufferHolders(h) ==
    {w \in {"out"} : out.op = "range_search" /\ out.status = "ok" /\ out.inner = h}
    \cup {t \in Threads : run[t].pc = "range_call" /\ run[t].p_res = h}
    \cup {t \in Threads : /\ run[t].pc = "done"
                          /\ run[t].op = "range_search"
                          /\ run[t].status = "ok"
                          /\ run[t].inner = h}

\* C15 as claimed: no range-search buffer is released twice, and every buffer
\* that is not released yet has exactly one holder that will release it, also
\* after a range search that failed.
C15_AsClaimed ==
    \A h \in Handles :
        /\ frees[h] <= 1
        /\ heap[h].cls = "rsr" => Cardinality(BufferHolders(h)) = 1

\* The mapping structures that will destroy the index h with themselves.
NativeOwners(h) ==
    {g \in Handles : heap[g].cls = "idmap" /\ heap[g].index = h /\ heap[g].own_fields}

\* The constructor calls whose `index` argument, still alive, will release h
\* when it is dropped.
ArgumentOwners(h) ==
    {t \in Threads : run[t].pc \in {"created", "owned"} /\ run[t].index.inner = h}

\* C16 as claimed: at no step of IdMap::new do the `index` argument and the
\* native mapping structure both count as owners of the inner handle.
C16_AsClaimed ==
    \A h \in Handles : ArgumentOwners(h) = {} \/ NativeOwners(h) = {}

\* C16 as amended: while IdMap::new runs, only the `index` argument owns the
\* inner handle until the own-flag is set; from there to mem::forget the
\* argument and the new mapping structure both do, and the one step out of
\* that state is the forget with the successful return.  Whenever no
\* constructor is running, every live handle has exactly one owner.
C16_Amended ==
    [][/\ \A t \in Threads :
             /\ run[t].pc = "created" =>
                   /\ ArgumentOwners(run[t].index_inner) = {t}
                   /\ NativeOwners(run[t].index_inner) = {}
             /\ run[t].pc = "owned" =>
                   /\ ArgumentOwners(run[t].index_inner) = {t}
                   /\ NativeOwners(run[t].index_inner) = {run[t].inner_ptr}
                   /\ run' # run =>
                         /\ run'[t] = Idle
                         /\ out'.op = "new" /\ out'.status = "ok"
                         /\ vals'[run[t].slot] =
                               IdMapVal(run[t].inner_ptr, run[t].index_inner)
       /\ Unshared => C2_SingleOwner
       /\ Unshared' => C2_SingleOwner']_vars

\* C16 witness: the own-flag is set and `index` is not forgotten yet, while
\* the other binding holds a wrapper.
C16_Witness ==
    /\ run[1].pc = "owned"
    /\ NativeOwners(run[1].index_inner) = {run[1].inner_ptr}
    /\ ArgumentOwners(run[1].index_inner) = {1}
    /\ \E s \in Slots : vals[s].kind = "idmap"

\* C17: when the engine refuses to build the mapping structure, IdMap::new
\* returns an error, leaves no wrapper and no constructor behind, has
\* allocated no outer handle, and the handle of the index it consumed is
\* released once and owned by no mapping structure.
C17_FailedNewReleasesIndex ==
    [][\A s \in Slots :
          (out'.op = "new" /\ out'.status = "err" /\ out'.slot = s /\ out.op = "none")
          => LET h == vals[s].inner
             IN  /\ vals[s].kind = "index"
                 /\ vals'[s] = NoVal
                 /\ run' = run
                 /\ nextH' = nextH
                 /\ \A g \in Handles : g # h => heap'[g] = heap[g] /\ frees'[g] = frees[g]
                 /\ frees[h] = 0 /\ frees'[h] = 1
                 /\ heap'[h] = Freed]_vars

\* C17 witness: an index that holds a vector was refused, and released.
C17_Witness ==
    /\ out.op = "new" /\ out.status = "err"
    /\ out.arg.ntotal = 1
    /\ vals[out.slot] = NoVal
    /\ \E h \in Handles : heap[h] = Freed /\ frees[h] = 1
    /\ \E s \in Slots : vals[s].kind = "idmap"

\* C18 as claimed: no call of the wrapper panics.
C18_AsClaimed == out.status # "panic"

\* The read operations of the exclusive facet, by the name of their record.
ReadOps ==
    {"is_trained", "ntotal", "d", "metric_type", "id_map", "index_inner_ptr",
     "assign", "search", "range_search"}

\* C19: the accessors, index_inner_ptr, and assign, search and range_search
\* through &mut self or, step by step, through &self, leave every index and
\* every mapping structure of the engine as it was (stored vectors, ntotal,
\* trained flag, label table, own-flag) and every binding too, whether the
\* call succeeds or fails.
C19_ReadsLeaveState ==
    [][((out' # out /\ out'.op \in ReadOps) \/ run' # run)
          => IndexState' = IndexState /\ vals' = vals]_vars

\* C19 witness: a range search on a wrapper that holds two labelled vectors has
\* returned its buffer, and the wrapper still owns its index.
C19_Witness ==
    /\ out.op = "range_search" /\ out.status = "ok" /\ OnWrapper
    /\ ntotal(Self) = 2
    /\ id_map(Self) = <<5, 7>>
    /\ heap[Self.inner].own_fields
    /\ heap[out.inner].cls = "rsr"

====
